---------------------------- MODULE Spec2Model ----------------------------
(***************************************************************************)
(* Model of src/app.py (Fleet Command): the loader's identifier            *)
(* standardisation, the calculation engine run_logic with its classifier   *)
(* get_rec, and the script's edit-then-recompute turns on the session's    *)
(* finance table.                                                          *)
(*                                                                         *)
(* Text is a sequence of one-character strings, so that substring tests,   *)
(* replacement, trimming and formatting are computed, not assumed.         *)
(* Money that goes through "odometer * 0.05" is held in twentieths of a    *)
(* dollar (0.05 = 1/20); cpm is held as an exact fraction.  Python floats  *)
(* are abstracted as exact arithmetic.                                     *)
(***************************************************************************)
EXTENDS Integers, Sequences, FiniteSets, TLC

VARIABLES files, dfs, master, edited, edits, row, rec

vars == <<files, dfs, master, edited, edits, row, rec>>

(***************************************************************************)
(* Text                                                                    *)
(***************************************************************************)
Upper == <<"A","B","C","D","E","F","G","H","I","J","K","L","M",
           "N","O","P","Q","R","S","T","U","V","W","X","Y","Z">>

LowerOf == <<"a","b","c","d","e","f","g","h","i","j","k","l","m",
             "n","o","p","q","r","s","t","u","v","w","x","y","z">>

\* TLC evaluates [i \in 1..n |-> e] and [k \in K |-> e] on demand, once per
\* application; these two give the same sequence or function as a value held in full
Eager(seq) == SubSeq(seq, 1, Len(seq))
EagerFn(f) == f @@ <<>>

LowerMap == EagerFn([c \in {Upper[i] : i \in 1..Len(Upper)} |->
                        LowerOf[CHOOSE i \in 1..Len(Upper) : Upper[i] = c]])

\* str.lower() on one character
LowerChar(c) == IF c \in DOMAIN LowerMap THEN LowerMap[c] ELSE c

\* str.lower()
Lower(s) == Eager([i \in 1..Len(s) |-> LowerChar(s[i])])

\* sub in s
Contains(s, sub) ==
    \E i \in 0..(Len(s) - Len(sub)) : SubSeq(s, i + 1, i + Len(sub)) = sub

StartsWith(s, sub) == Len(s) >= Len(sub) /\ SubSeq(s, 1, Len(sub)) = sub

Digits == <<"0","1","2","3","4","5","6","7","8","9">>

IsDigit(c) == \E i \in 1..10 : Digits[i] = c

DigitVal(c) == (CHOOSE i \in 1..10 : Digits[i] = c) - 1

RECURSIVE NatStr(_)
\* str(n) for a natural number
NatStr(n) == IF n < 10 THEN <<Digits[n + 1]>> ELSE NatStr(n \div 10) \o <<Digits[(n % 10) + 1]>>

\* str(n) for an integer
IntStr(n) == IF n < 0 THEN <<"-">> \o NatStr(-n) ELSE NatStr(n)

RECURSIVE ParseNat(_)
\* the value of a non-empty digit string
ParseNat(s) ==
    IF Len(s) = 1 THEN DigitVal(s[1])
    ELSE 10 * ParseNat(SubSeq(s, 1, Len(s) - 1)) + DigitVal(s[Len(s)])

IsSpace(c) == c = " "

RECURSIVE LStrip(_)
LStrip(s) == IF s # <<>> /\ IsSpace(s[1]) THEN LStrip(Tail(s)) ELSE s

RECURSIVE RStrip(_)
RStrip(s) == IF s # <<>> /\ IsSpace(s[Len(s)]) THEN RStrip(SubSeq(s, 1, Len(s) - 1)) ELSE s

\* str.strip()
Strip(s) == RStrip(LStrip(s))

RECURSIVE Replace(_, _)
\* str.replace(old, ''): every non-overlapping occurrence, found left to right
Replace(s, old) ==
    IF s = <<>> THEN <<>>
    ELSE IF StartsWith(s, old) THEN Replace(SubSeq(s, Len(old) + 1, Len(s)), old)
    ELSE <<s[1]>> \o Replace(Tail(s), old)

SPOT == <<"S", "P", "O", "T", "-">>
clean_id == <<"c", "l", "e", "a", "n", "_", "i", "d">>
payoff_balance == <<"p", "a", "y", "o", "f", "f", "_", "b", "a", "l", "a", "n", "c", "e">>

(***************************************************************************)
(* Cells and tables (pandas DataFrame)                                     *)
(***************************************************************************)
\* a text cell, a numeric cell and a missing cell (NaN / None)
S(s) == [t |-> "s", s |-> s, n |-> 0]
N(n) == [t |-> "n", s |-> <<>>, n |-> n]
NaN == [t |-> "nan", s |-> <<>>, n |-> 0]

\* pd.DataFrame()
EmptyDF == [cols |-> <<>>, rows |-> <<>>]

\* df.empty
Empty(df) == Len(df.cols) = 0 \/ Len(df.rows) = 0

\* name in df.columns
HasCol(df, name) == \E i \in 1..Len(df.cols) : df.cols[i] = name

ColIndex(df, name) == CHOOSE i \in 1..Len(df.cols) : df.cols[i] = name

\* df[name] = values: a new column goes last, an existing one is overwritten in place
SetCol(df, name, values) ==
    IF HasCol(df, name)
    THEN [df EXCEPT !.rows = Eager([r \in 1..Len(df.rows) |->
                                 [df.rows[r] EXCEPT ![ColIndex(df, name)] = values[r]]])]
    ELSE [cols |-> Append(df.cols, name),
          rows |-> Eager([r \in 1..Len(df.rows) |-> Append(df.rows[r], values[r])])]

\* next((c for c in df.columns if ...), None) on the columns' test results: the
\* position of the first column that passes, 0 standing for None
FirstCol(hit) ==
    IF \E i \in 1..Len(hit) : hit[i]
    THEN CHOOSE i \in 1..Len(hit) : hit[i] /\ \A j \in 1..(i - 1) : ~hit[j]
    ELSE 0

(***************************************************************************)
(* load_initial_data: Standardize ID Column                                *)
(***************************************************************************)
\* astype(str) on one cell
AsStr(c) ==
    IF c.t = "s" THEN c.s
    ELSE IF c.t = "n" THEN IntStr(c.n)
    ELSE <<"n", "a", "n">>

\* .astype(str).str.replace('SPOT-', '').str.strip()
CleanIdNoStrip(c) == Replace(AsStr(c), SPOT)

CleanId(c) == Strip(Replace(AsStr(c), SPOT))

\* 'unit' in c.lower() or 'truck' in c.lower() and 'price' not in c.lower()
IsIdCol(c) ==
    \/ Contains(Lower(c), <<"u", "n", "i", "t">>)
    \/ /\ Contains(Lower(c), <<"t", "r", "u", "c", "k">>)
       /\ ~Contains(Lower(c), <<"p", "r", "i", "c", "e">>)

\* id_col: the first column whose header passes
IdCol(df) == FirstCol(Eager([i \in 1..Len(df.cols) |-> IsIdCol(df.cols[i])]))

\* the table of one file once parsed: the clean_id column is added when an id column is found
StandardizeId(df) ==
    LET id_col == IdCol(df)
    IN  IF id_col # 0
        THEN SetCol(df, clean_id,
                    Eager([r \in 1..Len(df.rows) |-> S(CleanId(df.rows[r][id_col]))]))
        ELSE df

\* one role of load_initial_data: a file that is absent gives an empty table
LoadFile(file) == IF file.present THEN StandardizeId(file.sheet) ELSE EmptyDF

load_initial_data(fs) ==
    [finance  |-> LoadFile(fs.finance),
     repairs  |-> LoadFile(fs.repairs),
     odometer |-> LoadFile(fs.odometer),
     distance |-> LoadFile(fs.distance)]

(***************************************************************************)
(* run_logic: 1. Base (Finance)                                            *)
(***************************************************************************)
PayoffMonths == 12

\* 'pay' in c.lower() and 'month' in c.lower()
IsPayCol(c) ==
    /\ Contains(Lower(c), <<"p", "a", "y">>)
    /\ Contains(Lower(c), <<"m", "o", "n", "t", "h">>)

\* pay_col: the first column whose header passes
PayCol(df) == FirstCol(Eager([i \in 1..Len(df.cols) |-> IsPayCol(df.cols[i])]))

\* pd.to_numeric(x, errors='coerce') on one cell: what is no number becomes NaN
ToNumeric(c) ==
    IF c.t = "n" THEN c
    ELSE IF c.t = "s" /\ c.s # <<>> /\ \A i \in 1..Len(c.s) : IsDigit(c.s[i])
         THEN N(ParseNat(c.s))
    ELSE NaN

\* .fillna(0) on one cell
FillNa(c) == IF c.t = "nan" THEN N(0) ELSE c

\* the values written to df_fin['payoff_balance']
PayoffValues(fin) ==
    LET pay_col == PayCol(fin)
    IN  Eager([r \in 1..Len(fin.rows) |->
            IF pay_col # 0
            THEN N(FillNa(ToNumeric(fin.rows[r][pay_col])).n * PayoffMonths)
            ELSE N(0)])

\* a slip the code does not make: the balance written over the payment column itself
WithPayoffInPlace(fin) ==
    LET pay_col == PayCol(fin)
    IN  IF pay_col # 0
        THEN SetCol(SetCol(fin, fin.cols[pay_col], PayoffValues(fin)),
                    payoff_balance, PayoffValues(fin))
        ELSE SetCol(fin, payoff_balance, PayoffValues(fin))

\* df_fin after lines 100-104: run_logic writes the column into the session's table
WithPayoff(fin) == SetCol(fin, payoff_balance, PayoffValues(fin))

\* next((x for x in df_fin.columns if c in x.lower()), None)
MetaCol(fin, c) ==
    FirstCol(Eager([i \in 1..Len(fin.cols) |-> Contains(Lower(fin.cols[i]), c)]))

\* df_fin[col] if col else "N/A", on one row
MetaCell(fin, r, col) == IF col # 0 THEN fin.rows[r][col] ELSE S(<<"N", "/", "A">>)

(***************************************************************************)
(* run_logic: 2.-4. aggregate each source per clean_id and left-merge      *)
(***************************************************************************)
IsAmountCol(c) == Contains(Lower(c), <<"a", "m", "o", "u", "n", "t">>)
IsOdoCol(c) == Contains(Lower(c), <<"o", "d", "o">>)
IsDistCol(c) == Contains(Lower(c), <<"d", "i", "s", "t">>)

\* amt_col: the first column whose header passes
AmtCol(df) == FirstCol(Eager([i \in 1..Len(df.cols) |-> IsAmountCol(df.cols[i])]))

\* odo_col: the first column whose header passes
OdoCol(df) == FirstCol(Eager([i \in 1..Len(df.cols) |-> IsOdoCol(df.cols[i])]))

\* dist_col: the first column whose header passes
DistCol(df) == FirstCol(Eager([i \in 1..Len(df.cols) |-> IsDistCol(df.cols[i])]))

\* not df.empty and 'clean_id' in df.columns, and the value column is found
Resolved(df, col) == ~Empty(df) /\ HasCol(df, clean_id) /\ col # 0

KeyOf(df, r) == df.rows[r][ColIndex(df, clean_id)]

\* the groups of df.groupby('clean_id'): rows without a key are dropped
GroupKeys(df) == {KeyOf(df, r) : r \in 1..Len(df.rows)} \ {NaN}

RECURSIVE SumFrom(_, _, _, _)
\* .sum() of one group, rows r..end: missing values are skipped
SumFrom(df, col, key, r) ==
    IF r > Len(df.rows) THEN 0
    ELSE (IF KeyOf(df, r) = key /\ df.rows[r][col].t = "n" THEN df.rows[r][col].n ELSE 0)
         + SumFrom(df, col, key, r + 1)

RECURSIVE LastFrom(_, _, _, _)
\* a slip the code does not make: the latest reading of a group instead of the highest
LastFrom(df, col, key, r) ==
    IF r > Len(df.rows) THEN NaN
    ELSE LET rest == LastFrom(df, col, key, r + 1)
         IN  IF rest.t = "nan" /\ KeyOf(df, r) = key /\ df.rows[r][col].t = "n"
             THEN df.rows[r][col]
             ELSE rest

RECURSIVE MaxFrom(_, _, _, _)
\* .max() of one group, rows r..end: missing values are skipped, NaN when all are
MaxFrom(df, col, key, r) ==
    IF r > Len(df.rows) THEN NaN
    ELSE LET rest == MaxFrom(df, col, key, r + 1)
             c == df.rows[r][col]
         IN  IF KeyOf(df, r) = key /\ c.t = "n"
             THEN (IF rest.t = "nan" \/ c.n >= rest.n THEN c ELSE rest)
             ELSE rest

\* df.groupby('clean_id')[col].sum(): one value per key
GroupSum(df, col) == EagerFn([k \in GroupKeys(df) |-> N(SumFrom(df, col, k, 1))])

\* df.groupby('clean_id')[col].max()
GroupMax(df, col) == EagerFn([k \in GroupKeys(df) |-> MaxFrom(df, col, k, 1)])

\* master.merge(stats, on='clean_id', how='left'): every row of master is kept, in
\* order, with the group's value under `name`, NaN where its key has no group
MergeLeft(m, stats, name) ==
    Eager([i \in 1..Len(m) |->
        m[i] @@ (name :> IF m[i].clean_id \in DOMAIN stats THEN stats[m[i].clean_id] ELSE NaN)])

\* master.fillna(0)
FillNaAll(m) == Eager([i \in 1..Len(m) |-> EagerFn([f \in DOMAIN m[i] |-> FillNa(m[i][f])])])

(***************************************************************************)
(* run_logic: 5. Formulas                                                  *)
(***************************************************************************)
Twentieth == 20
BaseValue == 65000
SalvageFloor == 10000

Max2(a, b) == IF a >= b THEN a ELSE b

\* a slip the code does not make: no .clip(lower=10000)
EstResaleNoClip(odometer) == BaseValue * Twentieth - odometer

\* 65000 - odometer * 0.05, clipped below at 10000; in twentieths of a dollar
EstResale(odometer) == Max2(SalvageFloor * Twentieth, BaseValue * Twentieth - odometer)

\* est_resale - payoff_balance; in twentieths of a dollar
NetEquity(est_resale, payoff) == est_resale - payoff * Twentieth

\* a slip the code does not make: dividing by recent_miles as it is
CpmNoReplace(total_repairs, recent_miles) == [num |-> total_repairs, den |-> recent_miles]

\* total_repairs / recent_miles.replace(0, 1), as the exact fraction num/den
Cpm(total_repairs, recent_miles) ==
    [num |-> total_repairs, den |-> IF recent_miles = 0 THEN 1 ELSE recent_miles]

\* q > a/b and q < a/b for a fraction q (den # 0) and b > 0
FracGt(q, a, b) == IF q.den > 0 THEN q.num * b > a * q.den ELSE q.num * b < a * q.den
FracLt(q, a, b) == IF q.den > 0 THEN q.num * b < a * q.den ELSE q.num * b > a * q.den

(***************************************************************************)
(* run_logic: 6. Recommendation Logic (get_rec)                            *)
(***************************************************************************)
HighMiles == 500000
ActiveMiles == 2000
IdleMiles == 1000
HighCpmPct == 15
LowCpmPct == 12

\* f"{x:.2f}" for a fraction x >= 0: rounded to the cent (a tie goes to the even
\* cent, as for a value the float holds exactly), then dollars "." two digits
Fmt2(q) ==
    LET num == IF q.den > 0 THEN q.num ELSE -q.num
        den == IF q.den > 0 THEN q.den ELSE -q.den
        fl == (100 * num) \div den
        rem == (100 * num) % den
        cents == IF 2 * rem > den THEN fl + 1
                 ELSE IF 2 * rem < den THEN fl
                 ELSE IF fl % 2 = 0 THEN fl ELSE fl + 1
    IN  NatStr(cents \div 100) \o <<".">> \o NatStr((cents % 100) \div 10) \o NatStr(cents % 10)

RECURSIVE Join(_, _)
\* sep.join(parts)
Join(parts, sep) ==
    IF parts = <<>> THEN <<>>
    ELSE IF Len(parts) = 1 THEN parts[1]
    ELSE parts[1] \o sep \o Join(Tail(parts), sep)

HighMilesText == <<"H", "i", "g", "h", " ", "M", "i", "l", "e", "s">>
HighCpmText(q) == <<"H", "i", "g", "h", " ", "C", "P", "M", " ", "(", "$">> \o Fmt2(q) \o <<")">>
PosEquityText == <<"P", "o", "s", " ", "E", "q", "u", "i", "t", "y">>
NegEquityText == <<"N", "e", "g", " ", "E", "q", "u", "i", "t", "y">>

\* a slip the code does not make: the equity clause appended first
ReasonsEquityFirst(r) ==
    (IF r.net_equity > 0 THEN <<PosEquityText>> ELSE <<NegEquityText>>)
    \o (IF r.odometer > HighMiles THEN <<HighMilesText>> ELSE <<>>)
    \o (IF FracGt(r.cpm, HighCpmPct, 100) THEN <<HighCpmText(r.cpm)>> ELSE <<>>)

\* the list `reasons` of get_rec, in the order the clauses are appended
Reasons(r) ==
    (IF r.odometer > HighMiles THEN <<HighMilesText>> ELSE <<>>)
    \o (IF FracGt(r.cpm, HighCpmPct, 100) THEN <<HighCpmText(r.cpm)>> ELSE <<>>)
    \o (IF r.net_equity > 0 THEN <<PosEquityText>> ELSE <<NegEquityText>>)

\* a slip the code does not make: the KEEP test placed before the SELL test
RecActionKeepFirst(r) ==
    IF FracLt(r.cpm, LowCpmPct, 100) /\ r.recent_miles > ActiveMiles THEN "KEEP"
    ELSE IF (r.odometer > HighMiles \/ FracGt(r.cpm, HighCpmPct, 100)) /\ r.net_equity > 0
         THEN "SELL"
    ELSE "INSPECT"

\* the value of `rec` of get_rec
RecAction(r) ==
    IF (r.odometer > HighMiles \/ FracGt(r.cpm, HighCpmPct, 100)) /\ r.net_equity > 0
    THEN "SELL"
    ELSE IF FracLt(r.cpm, LowCpmPct, 100) /\ r.recent_miles > ActiveMiles THEN "KEEP"
    ELSE IF r.recent_miles < IdleMiles /\ r.net_equity < 0 THEN "INSPECT"
    ELSE "INSPECT"

\* get_rec(row): pd.Series([rec, ", ".join(reasons)])
get_rec(r) == [Action |-> RecAction(r), Reasoning |-> Join(Reasons(r), <<",", " ">>)]

(***************************************************************************)
(* run_logic                                                               *)
(***************************************************************************)
\* master = df_fin[['clean_id', 'payoff_balance']].copy(), then make, model, year
BaseMaster(fin) ==
    LET key == ColIndex(fin, clean_id)
        payoff == ColIndex(fin, payoff_balance)
        make == MetaCol(fin, <<"m", "a", "k", "e">>)
        model == MetaCol(fin, <<"m", "o", "d", "e", "l">>)
        year == MetaCol(fin, <<"y", "e", "a", "r">>)
    IN  Eager([r \in 1..Len(fin.rows) |->
            [clean_id       |-> fin.rows[r][key],
             payoff_balance |-> fin.rows[r][payoff],
             make           |-> MetaCell(fin, r, make),
             model          |-> MetaCell(fin, r, model),
             year           |-> MetaCell(fin, r, year)]])

\* steps 2-4 and the fillna: a source that is empty, has no clean_id or no value
\* column is skipped, and its column is then absent from master
Merged(fin, d) ==
    LET m0 == BaseMaster(fin)
        m1 == IF Resolved(d.repairs, AmtCol(d.repairs))
              THEN MergeLeft(m0, GroupSum(d.repairs, AmtCol(d.repairs)),
                             "total_repairs")
              ELSE m0
        m2 == IF Resolved(d.odometer, OdoCol(d.odometer))
              THEN MergeLeft(m1, GroupMax(d.odometer, OdoCol(d.odometer)),
                             "odometer")
              ELSE m1
        m3 == IF Resolved(d.distance, DistCol(d.distance))
              THEN MergeLeft(m2, GroupSum(d.distance, DistCol(d.distance)),
                             "recent_miles")
              ELSE m2
    IN  FillNaAll(m3)

\* step 5 and 6 on one row of master whose columns are all there
Derived(m) ==
    LET est == EstResale(m.odometer.n)
        ne == NetEquity(est, m.payoff_balance.n)
        q == Cpm(m.total_repairs.n, m.recent_miles.n)
        out == get_rec([odometer |-> m.odometer.n, cpm |-> q, net_equity |-> ne,
                        recent_miles |-> m.recent_miles.n])
    IN  [clean_id |-> m.clean_id, payoff_balance |-> m.payoff_balance.n,
         make |-> m.make, model |-> m.model, year |-> m.year,
         total_repairs |-> m.total_repairs.n, odometer |-> m.odometer.n,
         recent_miles |-> m.recent_miles.n,
         est_resale |-> est, net_equity |-> ne, cpm |-> q,
         Action |-> out.Action, Reasoning |-> out.Reasoning]

\* master['odometer'] (line 138), then master['total_repairs'] and
\* master['recent_miles'] (line 145): the first column that is not there
MissingColumn(m) ==
    IF "odometer" \notin DOMAIN m[1] THEN "odometer"
    ELSE IF "total_repairs" \notin DOMAIN m[1] THEN "total_repairs"
    ELSE IF "recent_miles" \notin DOMAIN m[1] THEN "recent_miles"
    ELSE "none"

\* run_logic(dfs): what it returns or raises, and the finance table it leaves behind
run_logic(d) ==
    IF Empty(d.finance) \/ ~HasCol(d.finance, clean_id)
    THEN [status |-> "empty", error |-> "none", rows |-> <<>>, finance |-> d.finance]
    ELSE LET fin == WithPayoff(d.finance)
             m == Merged(fin, d)
         IN  IF MissingColumn(m) # "none"
             THEN [status |-> "raised", error |-> MissingColumn(m), rows |-> <<>>,
                   finance |-> fin]
             ELSE [status |-> "ok", error |-> "none",
                   rows |-> Eager([i \in 1..Len(m) |-> Derived(m[i])]), finance |-> fin]

\* what the caller sees of a call
Outcome(out) == [status |-> out.status, error |-> out.error, rows |-> out.rows]

(***************************************************************************)
(* The script: master_df = run_logic(st.session_state['dfs']) (line 177),  *)
(* then the Data Entry tab stores what the editor returns (lines 222-224). *)
(* One action is one run of the script; the edit that triggered the run    *)
(* reaches the session's table at the end of that run.                     *)
(***************************************************************************)
MaxEdits == 2
MaxFinRows == 2
MaxRows == 2

NoMaster == [status |-> "none", error |-> "none", rows |-> <<>>]
NoRow == [odometer |-> 0, cpm |-> [num |-> 0, den |-> 1], net_equity |-> 0, recent_miles |-> 0]
NoRec == [Action |-> "none", Reasoning |-> <<>>]

\* the editor is rendered when the run got that far and the finance table is not empty
EditorShown(out) == out.status # "raised" /\ ~Empty(out.finance)

\* one run of the script in which the editor returns `fin`
ScriptRun(out, fin) ==
    /\ master' = Outcome(out)
    /\ dfs' = [dfs EXCEPT !.finance = fin]
    /\ edited' = (fin # out.finance)
    /\ edits' = IF fin # out.finance THEN edits + 1 ELSE edits
    /\ UNCHANGED <<files, row, rec>>

\* a run with nothing edited (or with the editor not rendered)
Rerun ==
    \E out \in {run_logic(dfs)} : ScriptRun(out, out.finance)

SetCell(df, r, c, v) == [df EXCEPT !.rows[r][c] = v]

\* the raw identifiers and the payments the user types
TypedIds == {S(<<"S", "P", "O", "T", "-", "7", "7">>), S(<<"2", "0", "0", "2">>)}
TypedPays == {N(6000), S(<<"n", "/", "a">>)}

\* the user changes the raw identifier of a row
EditId ==
    \E out \in {run_logic(dfs)} :
        /\ edits < MaxEdits
        /\ EditorShown(out)
        /\ \E id_col \in {IdCol(out.finance)} \ {0} :
              \E r \in 1..Len(out.finance.rows), v \in TypedIds :
                  ScriptRun(out, SetCell(out.finance, r, id_col, v))

\* the user changes the payment of a row
EditPay ==
    \E out \in {run_logic(dfs)} :
        /\ edits < MaxEdits
        /\ EditorShown(out)
        /\ \E pay_col \in {PayCol(out.finance)} \ {0} :
              \E r \in 1..Len(out.finance.rows), v \in TypedPays :
                  ScriptRun(out, SetCell(out.finance, r, pay_col, v))

\* the row the editor appends: the typed cells, every other cell missing
NewRow(fin, id, pay) ==
    Eager([c \in 1..Len(fin.cols) |->
        IF c = IdCol(fin) THEN id
        ELSE IF c = PayCol(fin) THEN pay
        ELSE NaN])

\* the user adds a truck (num_rows="dynamic")
AddRow ==
    \E out \in {run_logic(dfs)} :
        /\ edits < MaxEdits
        /\ EditorShown(out)
        /\ Len(out.finance.rows) < MaxFinRows
        /\ \E id \in TypedIds, pay \in TypedPays :
              ScriptRun(out, [out.finance EXCEPT
                                 !.rows = Append(@, NewRow(out.finance, id, pay))])

RemoveAt(seq, r) == SubSeq(seq, 1, r - 1) \o SubSeq(seq, r + 1, Len(seq))

\* the user deletes a row
DeleteRow ==
    \E out \in {run_logic(dfs)} :
        /\ edits < MaxEdits
        /\ EditorShown(out)
        /\ \E r \in 1..Len(out.finance.rows) :
              ScriptRun(out, [out.finance EXCEPT !.rows = RemoveAt(@, r)])

(***************************************************************************)
(* The files the session starts from                                       *)
(***************************************************************************)
H_TRUCK == <<"T", "R", "U", "C", "K">>
H_UnitID == <<"U", "n", "i", "t", " ", "I", "D">>
H_Unit == <<"U", "n", "i", "t">>
H_VIN == <<"V", "I", "N">>
H_PaymentMonth == <<"P", "a", "y", "m", "e", "n", "t", "/", "M", "o", "n", "t", "h">>
H_MonthlyPayment == <<"M", "o", "n", "t", "h", "l", "y", " ", "P", "a", "y", "m", "e", "n", "t">>
H_Make == <<"M", "a", "k", "e">>
H_Year == <<"Y", "e", "a", "r">>
H_Amount == <<"A", "m", "o", "u", "n", "t">>
H_Cost == <<"C", "o", "s", "t">>
H_Odometer == <<"O", "d", "o", "m", "e", "t", "e", "r">>
H_Reading == <<"R", "e", "a", "d", "i", "n", "g">>
H_Distance == <<"D", "i", "s", "t", "a", "n", "c", "e">>
H_Miles == <<"M", "i", "l", "e", "s">>

Id1001Spot == S(<<"S", "P", "O", "T", "-", "1", "0", "0", "1">>)
Id1001Padded == S(<<" ", "1", "0", "0", "1", " ">>)
Id1001Number == N(1001)
Id1001 == S(<<"1", "0", "0", "1">>)
Id77Spot == S(<<"S", "P", "O", "T", "-", "7", "7">>)
Id77Inner == S(<<"7", "S", "P", "O", "T", "-", "7">>)
Key1001 == S(<<"1", "0", "0", "1">>)
Key77 == S(<<"7", "7">>)

Absent == [present |-> FALSE, sheet |-> EmptyDF]
File(cols, rows) == [present |-> TRUE, sheet |-> [cols |-> cols, rows |-> rows]]

\* all sequences over `choices` of length 0..n
SeqsUpTo(choices, n) == UNION {[1..k -> choices] : k \in 0..n}

\* a finance sheet: each entry is <<raw identifier, payment>>
FinanceRow(cols, e) ==
    Eager([c \in 1..Len(cols) |->
        IF cols[c] \in {H_TRUCK, H_UnitID, H_VIN} THEN e[1]
        ELSE IF cols[c] \in {H_PaymentMonth, H_MonthlyPayment} THEN e[2]
        ELSE IF cols[c] = H_Make THEN S(<<"V", "o", "l", "v", "o">>)
        ELSE N(2019)])

FinanceFile(cols, entries) ==
    File(cols, Eager([r \in 1..Len(entries) |-> FinanceRow(cols, entries[r])]))

FinFull == <<H_TRUCK, H_PaymentMonth, H_Make, H_Year>>
FinNoPay == <<H_UnitID, H_Make>>
FinNoId == <<H_VIN, H_MonthlyPayment>>

\* rosters: none, one vehicle, two vehicles in either order, one vehicle listed twice
Rosters ==
    {<<>>,
     <<<<Id1001Spot, N(500)>>>>,
     <<<<Id1001Spot, N(500)>>, <<Id77Spot, N(6000)>>>>,
     <<<<Id77Spot, N(6000)>>, <<Id1001Spot, N(500)>>>>,
     <<<<Id1001Spot, N(500)>>, <<Id1001Padded, N(6000)>>>>}
RepairRows == {<<Id1001Padded, N(100)>>, <<Id77Inner, N(9000)>>}
OdometerRows == {<<Id1001Number, N(100000)>>, <<Id1001Spot, N(1200000)>>}
DistanceRows == {<<Id1001, N(2500)>>, <<Id77Spot, NaN>>}

\* every source resolved, up to MaxRows rows each
AggFiles ==
    {[finance  |-> FinanceFile(FinFull, f),
      repairs  |-> File(<<H_Unit, H_Amount>>, rp),
      odometer |-> File(<<H_Unit, H_Odometer>>, od),
      distance |-> File(<<H_TRUCK, H_Distance>>, ds)] :
        f \in Rosters, rp \in SeqsUpTo(RepairRows, MaxRows),
        od \in SeqsUpTo(OdometerRows, MaxRows), ds \in SeqsUpTo(DistanceRows, MaxRows)}

\* a source file: absent, without rows, without an identifier column, without its value
\* column, with rows of vehicles that are not in the roster, or with a roster vehicle's row
SourceVariants(valueHeader, otherHeader, value) ==
    {Absent,
     File(<<H_Unit, valueHeader>>, <<>>),
     File(<<H_VIN, valueHeader>>, <<<<Id1001, value>>>>),
     File(<<H_Unit, otherHeader>>, <<<<Id1001, value>>>>),
     File(<<H_Unit, valueHeader>>, <<<<S(<<"9", "9", "9">>), value>>>>),
     File(<<H_Unit, valueHeader>>, <<<<Id1001, value>>>>)}

SourceFiles ==
    {[finance  |-> f, repairs |-> rp, odometer |-> od, distance |-> ds] :
        f \in {FinanceFile(FinFull, <<<<Id1001Spot, N(500)>>, <<Id77Spot, N(6000)>>>>),
               FinanceFile(FinNoPay, <<<<Id1001Spot, N(500)>>>>)},
        rp \in SourceVariants(H_Amount, H_Cost, N(9000)),
        od \in SourceVariants(H_Odometer, H_Reading, N(520000)),
        ds \in SourceVariants(H_Distance, H_Miles, N(2500))}

\* the files of a session that is then edited
SessionFiles ==
    {[finance  |-> f,
      repairs  |-> File(<<H_Unit, H_Amount>>, <<<<Id1001Padded, N(9000)>>>>),
      odometer |-> File(<<H_Unit, H_Odometer>>, <<<<Id1001Number, N(520000)>>>>),
      distance |-> ds] :
        f \in {Absent,
               FinanceFile(FinNoId, <<<<Id1001Spot, N(500)>>>>),
               FinanceFile(FinNoPay, <<<<Id1001Spot, N(500)>>>>),
               FinanceFile(FinFull, <<<<Id1001Spot, N(500)>>>>),
               FinanceFile(FinFull, <<<<Id1001Spot, N(500)>>, <<Id77Spot, N(6000)>>>>)},
        ds \in {Absent, File(<<H_TRUCK, H_Distance>>, <<<<Id1001, N(2500)>>>>)}}

Start(fs) ==
    /\ files = fs
    /\ dfs = load_initial_data(fs)
    /\ master = NoMaster
    /\ edited = FALSE
    /\ edits = 0
    /\ row = NoRow
    /\ rec = NoRec

\* a session: the files are loaded once, then the script runs on every interaction
Init == \E fs \in SessionFiles : Start(fs)

Next == Rerun \/ EditId \/ EditPay \/ AddRow \/ DeleteRow

Spec == Init /\ [][Next]_vars

\* the engine on resolved sources of every content
InitAgg == \E fs \in AggFiles : Start(fs)

NextAgg == Rerun

SpecAgg == InitAgg /\ [][NextAgg]_vars

\* the engine on every state of the three sources
InitSources == \E fs \in SourceFiles : Start(fs)

NextSources == Rerun

SpecSources == InitSources /\ [][NextSources]_vars

(***************************************************************************)
(* The classifier on its own: get_rec applied to one row                   *)
(***************************************************************************)
NoFiles == [finance |-> Absent, repairs |-> Absent, odometer |-> Absent, distance |-> Absent]

RecOdometers == {0, 500000, 500001, 1200000}
RecCpms == {[num |-> 0, den |-> 1], [num |-> 11, den |-> 100], [num |-> 12, den |-> 100],
            [num |-> 1, den |-> 8], [num |-> 15, den |-> 100], [num |-> 16, den |-> 100],
            [num |-> 5, den |-> 8], [num |-> 9000, den |-> 2500]}
RecEquities == {-20, 0, 20}
RecMiles == {0, 999, 1000, 2000, 2001}

RecRows ==
    {[odometer |-> o, cpm |-> q, net_equity |-> e, recent_miles |-> m] :
        o \in RecOdometers, q \in RecCpms, e \in RecEquities, m \in RecMiles}

InitRec ==
    /\ files = NoFiles
    /\ dfs = load_initial_data(NoFiles)
    /\ master = NoMaster
    /\ edited = FALSE
    /\ edits = 0
    /\ row \in RecRows
    /\ rec = NoRec

\* master.apply(get_rec, axis=1) on one row
Classify ==
    /\ rec' = get_rec(row)
    /\ UNCHANGED <<files, dfs, master, edited, edits, row>>

NextRec == Classify

SpecRec == InitRec /\ [][NextRec]_vars

(***************************************************************************)
(* Properties                                                              *)
(***************************************************************************)
\* Rule A and Rule B as the specification words them, on the classified row
RuleA ==
    /\ row.odometer > 500000 \/ row.cpm.num * 100 > 15 * row.cpm.den
    /\ row.net_equity > 0
RuleB == row.cpm.num * 100 < 12 * row.cpm.den /\ row.recent_miles > 2000

\* C2: for every odometer, cpm, net_equity and recent_miles, Action is SELL exactly
\* when Rule A holds, KEEP exactly when Rule A does not hold and Rule B does, and
\* INSPECT in every other case; a row with both Rule A and Rule B is SELL.
C2_ActionFollowsRules ==
    rec # NoRec =>
        /\ rec.Action \in {"SELL", "KEEP", "INSPECT"}
        /\ rec.Action = "SELL" <=> RuleA
        /\ rec.Action = "KEEP" <=> (~RuleA /\ RuleB)
        /\ rec.Action = "INSPECT" <=> (~RuleA /\ ~RuleB)

\* a classified row on which both rules hold
C2_Witness == rec # NoRec /\ RuleA /\ RuleB /\ rec.Action = "SELL"

\* C10: Reasoning is, in this order and separated by ", ": "High Miles" iff
\* odometer > 500000, "High CPM ($x.xx)" iff cpm > 0.15, then "Pos Equity" when
\* net_equity > 0 and "Neg Equity" otherwise; nothing else decides it.
C10_ReasoningClauses ==
    rec # NoRec =>
        /\ rec.Reasoning =
              (IF row.odometer > 500000
               THEN <<"H", "i", "g", "h", " ", "M", "i", "l", "e", "s", ",", " ">> ELSE <<>>)
              \o (IF row.cpm.num * 100 > 15 * row.cpm.den
                  THEN <<"H", "i", "g", "h", " ", "C", "P", "M", " ", "(", "$">>
                       \o Fmt2(row.cpm) \o <<")", ",", " ">>
                  ELSE <<>>)
              \o (IF row.net_equity > 0
                  THEN <<"P", "o", "s", " ", "E", "q", "u", "i", "t", "y">>
                  ELSE <<"N", "e", "g", " ", "E", "q", "u", "i", "t", "y">>)
        /\ row.cpm = [num |-> 9000, den |-> 2500] =>
              Contains(rec.Reasoning, <<"(", "$", "3", ".", "6", "0", ")">>)
        /\ row.cpm = [num |-> 5, den |-> 8] =>
              Contains(rec.Reasoning, <<"(", "$", "0", ".", "6", "2", ")">>)

\* a row with all three clauses whose Action no rule sets: high miles, high cpm, no equity
C10_Witness ==
    /\ rec # NoRec
    /\ row.odometer > 500000
    /\ row.cpm = [num |-> 9000, den |-> 2500]
    /\ row.net_equity = 0
    /\ rec.Action = "INSPECT"
    /\ Len(rec.Reasoning) = 40

\* the records of the master table the last run returned
Records == {master.rows[i] : i \in 1..Len(master.rows)}

\* C7: every record has est_resale = max(10000, 65000 - odometer * 0.05), so
\* est_resale >= 10000, and net_equity = est_resale - payoff_balance (amounts
\* compared in twentieths of a dollar).
C7_ResaleAndEquity ==
    \A r \in Records :
        /\ r.est_resale >= 10000 * 20
        /\ r.est_resale >= 65000 * 20 - r.odometer
        /\ r.est_resale = 10000 * 20 \/ r.est_resale = 65000 * 20 - r.odometer
        /\ r.net_equity = r.est_resale - r.payoff_balance * 20

\* a record on the floor and a record above it that owes more than it is worth
C7_Witness ==
    /\ \E r \in Records : r.odometer = 1200000 /\ r.est_resale = 200000 /\ r.net_equity > 0
    /\ \E r \in Records : r.odometer = 0 /\ r.est_resale = 1300000 /\ r.net_equity < 0

\* C8: a record with recent_miles = 0 has cpm = total_repairs, a record with
\* recent_miles > 0 has cpm = total_repairs / recent_miles; the divisor is never 0.
C8_CpmSubstitution ==
    \A r \in Records :
        /\ r.cpm.den # 0
        /\ r.recent_miles = 0 => r.cpm.num = r.total_repairs * r.cpm.den
        /\ r.recent_miles > 0 => r.cpm.num * r.recent_miles = r.total_repairs * r.cpm.den

\* a vehicle with repairs and no miles beside one with miles
C8_Witness ==
    /\ \E r \in Records : r.recent_miles = 0 /\ r.total_repairs = 9000 /\ r.cpm.num = 9000
    /\ \E r \in Records : r.recent_miles = 2500 /\ r.total_repairs = 100

\* the rows of a source table that carry key k, as a set: no order
RowsOf(df, k) == {r \in 1..Len(df.rows) : KeyOf(df, r) = k}

RECURSIVE SumOver(_, _, _)
\* the sum of the numbers in column col over the rows R
SumOver(df, col, R) ==
    IF R = {} THEN 0
    ELSE LET r == CHOOSE x \in R : TRUE
         IN  (IF df.rows[r][col].t = "n" THEN df.rows[r][col].n ELSE 0)
             + SumOver(df, col, R \ {r})

\* the greatest number in column col over the rows R, 0 when there is none
MaxOver(df, col, R) ==
    LET vals == {df.rows[r][col].n : r \in {x \in R : df.rows[x][col].t = "n"}}
    IN  IF vals = {} THEN 0 ELSE CHOOSE v \in vals : \A w \in vals : w <= v

AllResolved ==
    /\ ~Empty(dfs.finance) /\ HasCol(dfs.finance, clean_id)
    /\ Resolved(dfs.repairs, AmtCol(dfs.repairs))
    /\ Resolved(dfs.odometer, OdoCol(dfs.odometer))
    /\ Resolved(dfs.distance, DistCol(dfs.distance))

\* C9: with the three sources resolved (key and value column, at least one row), each
\* roster vehicle's total_repairs is the sum of the amounts of its repair rows,
\* recent_miles the sum of its distance rows and odometer the greatest of its odometer
\* rows, whatever the order of the rows; a vehicle without a row in a source gets 0.
C9_SumsAndMax ==
    (master.status # "none" /\ AllResolved) =>
        /\ master.status = "ok"
        /\ Len(master.rows) = Len(dfs.finance.rows)
        /\ \A i \in 1..Len(master.rows) :
              LET k == KeyOf(dfs.finance, i)
                  r == master.rows[i]
              IN  /\ r.total_repairs =
                        SumOver(dfs.repairs, AmtCol(dfs.repairs),
                                RowsOf(dfs.repairs, k))
                  /\ r.recent_miles =
                        SumOver(dfs.distance, DistCol(dfs.distance),
                                RowsOf(dfs.distance, k))
                  /\ r.odometer =
                        MaxOver(dfs.odometer, OdoCol(dfs.odometer),
                                RowsOf(dfs.odometer, k))

\* two repair rows of one vehicle, its higher odometer reading first and the lower one
\* last, and a second roster vehicle that has no repair, odometer or distance row
C9_Witness ==
    /\ master.status = "ok"
    /\ Len(dfs.odometer.rows) = 2
    /\ dfs.odometer.rows[1][2] = N(1200000)
    /\ dfs.odometer.rows[2][2] = N(100000)
    /\ \E r \in Records :
          r.clean_id = Key1001 /\ r.total_repairs = 200 /\ r.odometer = 1200000
          /\ r.recent_miles = 5000
    /\ \E r \in Records :
          r.clean_id = Key77 /\ r.total_repairs = 0 /\ r.odometer = 0 /\ r.recent_miles = 0

\* where sub first occurs in s, 0 when it does not
FirstAt(s, sub) ==
    IF Contains(s, sub)
    THEN CHOOSE i \in 1..Len(s) :
             /\ SubSeq(s, i, i + Len(sub) - 1) = sub
             /\ \A j \in 1..(i - 1) : SubSeq(s, j, j + Len(sub) - 1) # sub
    ELSE 0

RECURSIVE WithoutAll(_, _)
\* s with every occurrence of sub cut out, occurrences taken first to last
WithoutAll(s, sub) ==
    IF FirstAt(s, sub) = 0 THEN s
    ELSE SubSeq(s, 1, FirstAt(s, sub) - 1)
         \o WithoutAll(SubSeq(s, FirstAt(s, sub) + Len(sub), Len(s)), sub)

\* s with only a leading sub cut off
WithoutPrefix(s, sub) == IF StartsWith(s, sub) THEN SubSeq(s, Len(sub) + 1, Len(s)) ELSE s

\* s from its first to its last character that is no blank
Trimmed(s) ==
    LET keep == {i \in 1..Len(s) : s[i] # " "}
    IN  IF keep = {} THEN <<>>
        ELSE SubSeq(s, CHOOSE i \in keep : \A j \in keep : i <= j,
                       CHOOSE i \in keep : \A j \in keep : j <= i)

\* the tables that were given a canonical key, with the sheet each was loaded from
Keyed ==
    {t \in {<<files.finance.sheet, dfs.finance>>, <<files.repairs.sheet, dfs.repairs>>,
            <<files.odometer.sheet, dfs.odometer>>, <<files.distance.sheet, dfs.distance>>} :
        HasCol(t[2], clean_id)}

\* the raw identifier of row r of a sheet
RawId(sheet, r) == sheet.rows[r][IdCol(sheet)]

\* C6 as stated: the canonical key is the text of the raw identifier with the prefix
\* 'SPOT-' removed and the surrounding whitespace trimmed (in either order).
C6_PrefixRemoved ==
    \A t \in Keyed : \A r \in 1..Len(t[1].rows) :
        \/ KeyOf(t[2], r) = S(Trimmed(WithoutPrefix(AsStr(RawId(t[1], r)), SPOT)))
        \/ KeyOf(t[2], r) = S(WithoutPrefix(Trimmed(AsStr(RawId(t[1], r))), SPOT))

\* the key of a raw identifier: every 'SPOT-' cut out, then trimmed
RefKey(c) == S(Trimmed(WithoutAll(AsStr(c), SPOT)))

\* C6 amended: the canonical key is the text of the raw identifier with every
\* occurrence of 'SPOT-' removed, wherever it stands, then trimmed; the sheet's own
\* columns are left as loaded; 'SPOT-1001', ' 1001 ' and 1001 all give '1001', and a
\* record carries the repairs of every row whose raw identifier has its roster row's key.
C6_EveryOccurrenceRemoved ==
    /\ \A t \in Keyed :
          /\ Len(t[2].rows) = Len(t[1].rows)
          /\ \A r \in 1..Len(t[1].rows) :
                /\ KeyOf(t[2], r) = RefKey(RawId(t[1], r))
                /\ SubSeq(t[2].rows[r], 1, Len(t[1].cols)) = t[1].rows[r]
                /\ RawId(t[1], r) \in {Id1001Spot, Id1001Padded, Id1001Number, Id1001}
                      => KeyOf(t[2], r) = Key1001
    /\ master.status = "ok" =>
          \A i \in 1..Len(master.rows) :
              /\ master.rows[i].clean_id = RefKey(RawId(files.finance.sheet, i))
              /\ master.rows[i].total_repairs =
                    SumOver(files.repairs.sheet, AmtCol(files.repairs.sheet),
                            {r \in 1..Len(files.repairs.sheet.rows) :
                                RefKey(RawId(files.repairs.sheet, r))
                                    = RefKey(RawId(files.finance.sheet, i))})

\* 'SPOT-1001' in the roster, ' 1001 ' in the repairs and 1001 in the odometer sheet
\* end in one record, and '7SPOT-7' is counted for the roster's 'SPOT-77'
C6_Witness ==
    /\ master.status = "ok"
    /\ \E i \in 1..Len(master.rows) :
          /\ RawId(files.finance.sheet, i) = Id1001Spot
          /\ master.rows[i].clean_id = Key1001
          /\ master.rows[i].total_repairs = 100
          /\ master.rows[i].odometer = 100000
          /\ \E r \in 1..Len(files.repairs.sheet.rows) :
                RawId(files.repairs.sheet, r) = Id1001Padded
    /\ \E i \in 1..Len(master.rows) :
          /\ RawId(files.finance.sheet, i) = Id77Spot
          /\ master.rows[i].clean_id = Key77
          /\ master.rows[i].total_repairs = 9000

\* C5: a rerun of the script on session tables the editor did not change gives the
\* master table the run before it gave: payoff_balance is computed once more from the
\* payment column, nothing is added twice.
C5_RerunIsIdempotent ==
    (master.status # "none" /\ ~edited) =>
        /\ Outcome(run_logic(dfs)) = master
        /\ run_logic(dfs).finance = dfs.finance

\* a master table built from a roster that already holds the payoff_balance column of
\* an earlier run, with a payment of 500 a month in it
C5_Witness ==
    /\ master.status = "ok"
    /\ ~edited
    /\ HasCol(dfs.finance, payoff_balance)
    /\ \E r \in Records : r.payoff_balance = 500 * PayoffMonths

\* C4: the master table of a run carries, for every row of the session's finance
\* table, the canonical key of that row's identifier as the editor left it: edited
\* identifiers and added rows are keyed like loaded ones.
C4_KeysFollowEdits ==
    run_logic(dfs).status = "ok" =>
        /\ Len(run_logic(dfs).rows) = Len(dfs.finance.rows)
        /\ \A i \in 1..Len(dfs.finance.rows) :
              run_logic(dfs).rows[i].clean_id
                  = S(CleanId(dfs.finance.rows[i][IdCol(dfs.finance)]))

\* run_logic gave a table or the empty table, it did not raise
Returned == master.status \in {"ok", "empty"}

\* C1: every run gives a master table with exactly one record per roster row, keyed
\* by the roster's canonical keys in roster order, whatever the other sources hold;
\* a vehicle that is only in the repair, odometer or distance sheet gets no record.
C1_OneRecordPerRosterRow ==
    (master.status # "none" /\ HasCol(dfs.finance, clean_id)) =>
        /\ Returned
        /\ Len(master.rows) = Len(dfs.finance.rows)
        /\ \A i \in 1..Len(master.rows) : master.rows[i].clean_id = KeyOf(dfs.finance, i)

\* whenever run_logic returns a table, it is the roster's: one record per roster row
RosterWhenReturned ==
    (Returned /\ HasCol(dfs.finance, clean_id)) =>
        /\ Len(master.rows) = Len(dfs.finance.rows)
        /\ \A i \in 1..Len(master.rows) : master.rows[i].clean_id = KeyOf(dfs.finance, i)

\* C3: a source that is absent, has no row, or lacks its key or its value column is
\* passed over: the run still gives the master table, with 0 in that source's column
\* for every vehicle, and payoff_balance 0 when the roster has no payment column.
C3_MissingSourceIsZero ==
    (master.status # "none" /\ ~Empty(dfs.finance) /\ HasCol(dfs.finance, clean_id)) =>
        /\ master.status = "ok"
        /\ Len(master.rows) = Len(dfs.finance.rows)
        /\ \A r \in Records :
              /\ ~Resolved(dfs.repairs, AmtCol(dfs.repairs)) => r.total_repairs = 0
              /\ ~Resolved(dfs.odometer, OdoCol(dfs.odometer)) => r.odometer = 0
              /\ ~Resolved(dfs.distance, DistCol(dfs.distance)) => r.recent_miles = 0
              /\ PayCol(dfs.finance) = 0 => r.payoff_balance = 0

=============================================================================
